---- MODULE Spec2Model ----
(***************************************************************************)
(* A model of inotify.py: the flag codec, the setup of the watch table,    *)
(* the read / resolve / emit / propagate loop of _detect, the watchdog     *)
(* process of _reset / _kill_timer, the SIGQUIT handler and the cleanup    *)
(* of _detect's finally block, run against a model of the kernel's inotify *)
(* queue and of a small directory tree.                                    *)
(*                                                                         *)
(* A 32-bit mask is the set of the positions of its 1 bits (0x100 is {8}): *)
(* a | b is the union, a & b the intersection and "!= 0" is "# {}".        *)
(* A path is the sequence of its tokens, the separator being a token:      *)
(* "r/a/" is <<"r", "/", "a", "/">>.                                       *)
(***************************************************************************)
EXTENDS Integers, Sequences, FiniteSets, TLC

\* ------------------------------------------------------------------ bounds
\* The number of filesystem operations the environment performs in one run.
MaxOps == 2
\* The depth of the directory tree below a root (r/a/b has depth 2).
MaxDepth == 2
\* The kernel's limit on queued events (fs.inotify.max_queued_events).
MaxQueued == 3
\* The length, in tokens, a reported name is NUL-padded to.
PadTo == 2

\* ------------------------------------------------------------- flag codec
\* The names of _EVENTS in the order of the dict's declaration.
EventOrder ==
    << "ACCESS", "MODIFY", "ATTRIB", "CLOSE_WRITE", "CLOSE_NOWRITE", "OPEN",
       "MOVED_FROM", "MOVED_TO", "CREATE", "DELETE", "DELETE_SELF", "MOVE_SELF",
       "UNMOUNT", "Q_OVERFLOW", "IGNORED", "CLOSE", "MOVE", "ONLYDIR",
       "DONT_FOLLOW", "EXCL_UNLINK", "MASK_ADD", "ISDIR", "ONESHOT" >>

EventNames == {EventOrder[i] : i \in DOMAIN EventOrder}

\* The value of each name, as the set of its bit positions.
_EVENTS ==
    [n \in EventNames |->
        CASE n = "ACCESS"        -> {0}
          [] n = "MODIFY"        -> {1}
          [] n = "ATTRIB"        -> {2}
          [] n = "CLOSE_WRITE"   -> {3}
          [] n = "CLOSE_NOWRITE" -> {4}
          [] n = "OPEN"          -> {5}
          [] n = "MOVED_FROM"    -> {6}
          [] n = "MOVED_TO"      -> {7}
          [] n = "CREATE"        -> {8}
          [] n = "DELETE"        -> {9}
          [] n = "DELETE_SELF"   -> {10}
          [] n = "MOVE_SELF"     -> {11}
          [] n = "UNMOUNT"       -> {13}
          [] n = "Q_OVERFLOW"    -> {14}
          [] n = "IGNORED"       -> {15}
          [] n = "CLOSE"         -> {3, 4}
          [] n = "MOVE"          -> {6, 7}
          [] n = "ONLYDIR"       -> {24}
          [] n = "DONT_FOLLOW"   -> {25}
          [] n = "EXCL_UNLINK"   -> {26}
          [] n = "MASK_ADD"      -> {29}
          [] n = "ISDIR"         -> {30}
          [] n = "ONESHOT"       -> {31}]

\* flag_names = _EVENTS.copy(); del flag_names["MOVE"]
DecodeNamesAll == EventOrder
DecodeNames == SelectSeq(EventOrder, LAMBDA n : n # "MOVE")

\* _decode_flag: the names, in declaration order, whose value meets the mask.
_decode_flag(flag) == SelectSeq(DecodeNames, LAMBDA n : _EVENTS[n] \cap flag # {})

RECURSIVE OrAll(_)
OrAll(names) ==
    IF names = << >> THEN {} ELSE _EVENTS[Head(names)] \cup OrAll(Tail(names))

\* 0xfff, the mask of an empty filter.
AllEvents == 0 .. 11

\* wait: "initialize event mask".
Encode(events) == IF OrAll(events) = {} THEN AllEvents ELSE OrAll(events)

HasFlag(flags, n) == flags \cap _EVENTS[n] # {}

\* ------------------------------------------------------------------ paths
SEP == "/"
NUL == "NUL"

\* name.replace('\0', '')
StripNul(name) == SelectSeq(name, LAMBDA c : c # NUL)

RECURSIVE Join(_)
\* The path string of a directory given by its components, without a
\* trailing separator: <<"r", "a">> is "r/a".
Join(d) ==
    IF Len(d) = 1 THEN <<d[1]>>
    ELSE Join(SubSeq(d, 1, Len(d) - 1)) \o <<SEP, d[Len(d)]>>

\* The directory a path string names, as the kernel resolves it.
Components(path) == SelectSeq(path, LAMBDA c : c # SEP)

\* path.rstrip(os.sep) + os.sep for a directory.
DirPath(d) == Join(d) \o <<SEP>>

\* directory + name.replace('\0', '') + os.sep
NewPathNoSep(directory, name) == directory \o StripNul(name)
NewPath(directory, name) == directory \o StripNul(name) \o <<SEP>>

\* The number of names of a filter the codec is applied to.
MaxNames == 2
\* The highest bit of the masks the decoder is applied to.
MaxBit == 8

\* --------------------------------------------------- the watch table (dict)
\* _watch_descriptors is a dict: a sequence of <<key, value>> pairs in
\* insertion order with no key twice.
Keys(d) == {d[i][1] : i \in DOMAIN d}
Get(d, k) == d[CHOOSE i \in DOMAIN d : d[i][1] = k][2]
Put(d, k, v) ==
    IF k \in Keys(d)
    THEN [i \in DOMAIN d |-> IF d[i][1] = k THEN <<k, v>> ELSE d[i]]
    ELSE Append(d, <<k, v>>)
Del(d, k) == SelectSeq(d, LAMBDA e : e[1] # k)
Values(d) == {d[i][2] : i \in DOMAIN d}

\* ------------------------------------------------------------------- state
VARIABLES
    \* the arguments of wait()
    events, monitor_mode, recursive_mode, timeout, target_paths,
    \* the main process
    pc, status, mask, _include_create_event, fd, paths,
    _watch_descriptors, deleting_watch_descriptor, buf, detected, exc, ci, out,
    \* the watchdog process and the SIGQUIT it sends
    _process, sigquit, timers,
    \* the kernel: the live watches, the next watch id, the event queue
    watches, nextwd, queue,
    \* the filesystem
    dirs, files, unlinked, ops,
    \* the names of the mask, as wait prints them on stderr
    names,
    \* history, read by the properties only
    dirs0, removed, resolved, lastAdd, rmCalls, ignoredSeen, reads, moves,
    \* the delete-self records and parent confirmations queued, in order, and
    \* whether a read has returned zero bytes
    gone, eof,
    \* the decoder by itself: the records the kernel wrote, the bytes read,
    \* the read index and the records yielded
    written, bytes, idx, yielded

config == <<events, monitor_mode, recursive_mode, timeout, target_paths>>
prog == <<pc, status, mask, _include_create_event, fd, paths,
          _watch_descriptors, deleting_watch_descriptor, buf, detected, exc, ci, out>>
timer == <<_process, sigquit, timers>>
kernel == <<watches, nextwd, queue>>
fs == <<dirs, files, unlinked, ops>>
hist == <<dirs0, removed, resolved, lastAdd, rmCalls, ignoredSeen, reads, moves>>
notes == <<gone, eof>>
decoder == <<written, bytes, idx, yielded>>
vars == <<config, prog, timer, kernel, fs, hist, names, notes, decoder>>

\* ------------------------------------------------------- the environment
NameOrder == <<"a", "b">>
Names == {NameOrder[i] : i \in DOMAIN NameOrder}
FileNames == {"f"}
\* The names a file can be renamed to.
MoveNames == {"f", "g"}
\* r is the directory the session watches, s its sibling, in which only
\* files are made; x does not exist.
Roots == {"r", "s"}

Parent(d) == SubSeq(d, 1, Len(d) - 1)
Depth(d) == Len(d) - 1
Locked(p) == \E u \in unlinked : Parent(u) = p

\* A reported name: the name, NUL-padded.
Pad(n) == [i \in 1 .. PadTo |-> IF i = 1 THEN n ELSE NUL]

Rec(wd, m, name, loc) == [wd |-> wd, mask |-> m, name |-> name, loc |-> loc]
Same(e1, e2) == e1.wd = e2.wd /\ e1.mask = e2.mask /\ e1.name = e2.name

NoRec == Rec(0, {}, << >>, << >>)
NoAdd == [path |-> << >>, wd |-> 0]

\* The record the kernel queues when the queue is full: wd is -1.
OverflowRec == Rec(-1, _EVENTS["Q_OVERFLOW"], << >>, << >>)

\* The kernel queueing one event: it is dropped for one Q_OVERFLOW record when
\* the queue is full, and merged into the last record when it equals it.
Enqueue(q, e) ==
    IF Len(q) >= MaxQueued
    THEN IF \E i \in DOMAIN q : Same(q[i], OverflowRec) THEN q
         ELSE Append(q, OverflowRec)
    ELSE IF q # << >> /\ Same(q[Len(q)], e) THEN q
    ELSE Append(q, e)

RECURSIVE EnqueueAll(_, _)
EnqueueAll(q, es) ==
    IF es = << >> THEN q ELSE EnqueueAll(Enqueue(q, Head(es)), Tail(es))

\* The events of one change of kind m named `name` in directory d: one record
\* for the watch on d, when there is one and its mask asks for m.
DirEvents(d, m, extra, name) ==
    LET ws == {w \in watches : w.dir = d /\ w.mask \cap m # {}}
    IN  IF ws = {} THEN << >>
        ELSE <<Rec((CHOOSE w \in ws : TRUE).wd, m \cup extra, Pad(name), d)>>

\* The events of the removal of directory d itself: DELETE_SELF when asked
\* for, then IGNORED, which the kernel always sends as the watch dies.
SelfEvents(d) ==
    LET ws == {w \in watches : w.dir = d}
    IN  IF ws = {} THEN << >>
        ELSE LET w == CHOOSE w \in ws : TRUE
             IN  (IF w.mask \cap _EVENTS["DELETE_SELF"] # {}
                  THEN <<Rec(w.wd, _EVENTS["DELETE_SELF"], << >>, d)>>
                  ELSE << >>)
                 \o <<Rec(w.wd, _EVENTS["IGNORED"], << >>, d)>>

\* The environment acts while the session can still observe it: from the
\* start of setup until the finally block is entered.
EnvLive == pc \notin {"start", "done", "cleanup", "rm", "close"}
EnvOn == EnvLive /\ ops < MaxOps

Mkdir(p, n) ==
    /\ EnvOn /\ p \in dirs /\ ~Locked(p) /\ Depth(p) < MaxDepth /\ p[1] = "r"
    /\ p \o <<n>> \notin dirs
    /\ dirs' = dirs \cup {p \o <<n>>}
    /\ queue' = EnqueueAll(queue, DirEvents(p, _EVENTS["CREATE"], _EVENTS["ISDIR"], n))
    /\ ops' = ops + 1
    /\ UNCHANGED <<decoder, notes, names, config, prog, timer, watches, nextwd, files, unlinked, hist>>

\* A file is created (mknod: it is not opened or written).
CreateFile(p, n) ==
    /\ EnvOn /\ p \in dirs /\ ~Locked(p)
    /\ <<p, n>> \notin files
    /\ files' = files \cup {<<p, n>>}
    /\ queue' = EnqueueAll(queue, DirEvents(p, _EVENTS["CREATE"], {}, n))
    /\ ops' = ops + 1
    /\ UNCHANGED <<decoder, notes, names, config, prog, timer, watches, nextwd, dirs, unlinked, hist>>

DeleteFile(p, n) ==
    /\ EnvOn /\ ~Locked(p)
    /\ <<p, n>> \in files
    /\ files' = files \ {<<p, n>>}
    /\ queue' = EnqueueAll(queue, DirEvents(p, _EVENTS["DELETE"], {}, n))
    /\ ops' = ops + 1
    /\ UNCHANGED <<decoder, notes, names, config, prog, timer, watches, nextwd, dirs, unlinked, hist>>

\* rename(p/n, p/n2) inside one directory: MOVED_FROM with the old name, then
\* MOVED_TO with the new one, on the watch of the directory.
Rename(p, n, n2) ==
    /\ EnvOn /\ p \in dirs /\ ~Locked(p)
    /\ <<p, n>> \in files /\ <<p, n2>> \notin files
    /\ files' = (files \ {<<p, n>>}) \cup {<<p, n2>>}
    /\ queue' = EnqueueAll(queue,
                   DirEvents(p, _EVENTS["MOVED_FROM"], {}, n)
                       \o DirEvents(p, _EVENTS["MOVED_TO"], {}, n2))
    /\ moves' = IF DirEvents(p, _EVENTS["MOVE"], {}, n) # << >>
                THEN Append(moves, <<p, n, n2>>) ELSE moves
    /\ ops' = ops + 1
    /\ UNCHANGED <<decoder, notes, names, config, prog, timer, watches, nextwd, dirs, unlinked,
                   dirs0, removed, resolved, lastAdd, rmCalls, ignoredSeen, reads>>

\* rmdir(d), first half: the directory is unlinked and its own watch dies.
RmdirUnlink(d) ==
    /\ EnvOn /\ d \in dirs /\ ~Locked(Parent(d)) /\ ~Locked(d)
    /\ ~\E c \in dirs : Len(c) > 0 /\ Parent(c) = d
    /\ ~\E f \in files : f[1] = d
    /\ dirs' = dirs \ {d}
    /\ unlinked' = unlinked \cup {d}
    /\ queue' = EnqueueAll(queue, SelfEvents(d))
    /\ watches' = {w \in watches : w.dir # d}
    /\ removed' = removed \cup {d}
    /\ gone' = IF Len(SelfEvents(d)) = 2 THEN Append(gone, <<"self", d>>) ELSE gone
    /\ ops' = ops + 1
    /\ UNCHANGED <<decoder, eof, names, config, prog, timer, nextwd, files,
                   dirs0, resolved, lastAdd, rmCalls, ignoredSeen, reads, moves>>

\* rmdir(d), second half: the parent directory is notified.
RmdirNotify(d) ==
    /\ EnvLive /\ d \in unlinked
    /\ unlinked' = unlinked \ {d}
    /\ queue' = EnqueueAll(queue,
                   DirEvents(Parent(d), _EVENTS["DELETE"], _EVENTS["ISDIR"], d[Len(d)]))
    /\ gone' = IF DirEvents(Parent(d), _EVENTS["DELETE"], _EVENTS["ISDIR"], d[Len(d)]) # << >>
               THEN Append(gone, <<"conf", d>>) ELSE gone
    /\ UNCHANGED <<decoder, eof, names, config, prog, timer, watches, nextwd, dirs, files, ops, hist>>

Env ==
    \/ \E p \in dirs, n \in Names : Mkdir(p, n)
    \/ \E p \in dirs, n \in FileNames : CreateFile(p, n)
    \/ \E f \in files : DeleteFile(f[1], f[2])
    \/ \E f \in files, n2 \in MoveNames : Rename(f[1], f[2], n2)
    \/ \E d \in dirs : RmdirUnlink(d)
    \/ \E d \in unlinked : RmdirNotify(d)

\* ------------------------------------------------------------------- Init
EventChoices == { << >>, <<"CREATE">>, <<"DELETE">>, <<"MOVE">> }
TargetChoices == { <<"r">>, <<"r", "x">> }
Timeouts == {0, 1}
TreeChoices == { {}, {<<"r", "a">>, <<"r", "a", "b">>} }

Init ==
    /\ events \in EventChoices
    /\ monitor_mode \in BOOLEAN
    /\ recursive_mode \in BOOLEAN
    /\ timeout \in Timeouts
    /\ target_paths \in TargetChoices
    /\ pc = "start" /\ status = "RUNNING"
    /\ mask = {} /\ _include_create_event = FALSE
    /\ fd = "none" /\ paths = << >>
    /\ _watch_descriptors = << >> /\ deleting_watch_descriptor = {}
    /\ buf = << >> /\ detected = NoRec /\ exc = "none" /\ ci = 1 /\ out = << >>
    /\ _process = "None" /\ sigquit = FALSE /\ timers = 0
    /\ watches = {} /\ nextwd = 1 /\ queue = << >>
    /\ \E t \in TreeChoices : dirs = {<<r>> : r \in Roots} \cup t
    /\ files = {} /\ unlinked = {} /\ ops = 0
    /\ dirs0 = dirs /\ removed = {} /\ resolved = 0
    /\ lastAdd = NoAdd /\ rmCalls = {} /\ ignoredSeen = {} /\ reads = 0
    /\ moves = << >>
    /\ gone = << >> /\ eof = FALSE
    /\ written = << >> /\ bytes = << >> /\ idx = 0 /\ yielded = << >>
    /\ names = << >>

\* ----------------------------------------------------- the kernel's calls
\* inotify_add_watch(fd, path, mask): -1 when the path does not exist, the
\* watch id the directory already has when it is watched (its mask is then
\* replaced), a fresh id otherwise.
KAddWd(path) ==
    LET d == Components(path)
    IN  IF d \notin dirs THEN -1
        ELSE IF \E w \in watches : w.dir = d
             THEN (CHOOSE w \in watches : w.dir = d).wd
             ELSE nextwd

KAddWatches(path, m) ==
    LET d == Components(path)
    IN  IF d \notin dirs THEN watches
        ELSE {w \in watches : w.dir # d} \cup {[wd |-> KAddWd(path), dir |-> d, mask |-> m]}

KAddNext(path) == IF KAddWd(path) = nextwd THEN nextwd + 1 ELSE nextwd

\* inotify_rm_watch(fd, wd): removes a live watch, which queues its IGNORED
\* record; fails, changing nothing, on an id that is not live.
KRmWatches(wd) == {w \in watches : w.wd # wd}
KRmQueue(wd) ==
    IF \E w \in watches : w.wd = wd
    THEN Enqueue(queue, Rec(wd, _EVENTS["IGNORED"], << >>,
                            (CHOOSE w \in watches : w.wd = wd).dir))
    ELSE queue

\* ------------------------------------------------------------- wait: setup
\* "enable create detection if not specified"
WatchMask(m, rec) ==
    IF HasFlag(m, "CREATE") THEN m
    ELSE IF rec THEN m \cup _EVENTS["CREATE"] ELSE m
IncludeCreateAfterForce(m) == HasFlag(WatchMask(m, TRUE), "CREATE")
IncludeCreate(m) == HasFlag(m, "CREATE")

ParseArgs ==
    /\ pc = "start"
    /\ mask' = WatchMask(Encode(events), recursive_mode)
    /\ _include_create_event' = IncludeCreate(Encode(events))
    /\ names' = _decode_flag(WatchMask(Encode(events), recursive_mode))
    /\ pc' = "setup"
    /\ UNCHANGED <<decoder, notes, config, status, fd, paths, _watch_descriptors,
                   deleting_watch_descriptor, buf, detected, exc, ci, out,
                   timer, kernel, fs, hist>>

Kids(d, ds) == SelectSeq(NameOrder, LAMBDA n : d \o <<n>> \in ds)

\* One level of the tree only.
WalkShallow(d, ds) ==
    [i \in DOMAIN Kids(d, ds) |-> Join(d) \o <<SEP, Kids(d, ds)[i], SEP>>]

RECURSIVE WalkKids(_, _, _)
RECURSIVE Walk(_, _)
\* os.walk(path), top down: root + os.path.sep + d + os.sep for each d of
\* dirs, then the walk of each d.
Walk(d, ds) ==
    [i \in DOMAIN Kids(d, ds) |-> Join(d) \o <<SEP, Kids(d, ds)[i], SEP>>]
        \o WalkKids(d, Kids(d, ds), ds)
WalkKids(d, kids, ds) ==
    IF kids = << >> THEN << >>
    ELSE Walk(d \o <<Head(kids)>>, ds) \o WalkKids(d, Tail(kids), ds)

RECURSIVE SetupPathsAlwaysWalk(_, _, _)
\* The tree is walked whatever the mode.
SetupPathsAlwaysWalk(targets, rec, ds) ==
    IF targets = << >> THEN << >>
    ELSE <<DirPath(<<Head(targets)>>)>>
         \o Walk(<<Head(targets)>>, ds)
         \o SetupPathsAlwaysWalk(Tail(targets), rec, ds)

RECURSIVE SetupPaths(_, _, _)
\* The list `paths` of wait: each target with its separator, followed in
\* recursive mode by the directories of its tree.
SetupPaths(targets, rec, ds) ==
    IF targets = << >> THEN << >>
    ELSE <<DirPath(<<Head(targets)>>)>>
         \o (IF rec THEN Walk(<<Head(targets)>>, ds) ELSE << >>)
         \o SetupPaths(Tail(targets), rec, ds)

\* "if not pathlib.Path(path).exists(): raise FileNotFoundError"
MissingFirst(targets, ds) == <<targets[1]>> \notin ds
Missing(targets, ds) == \E i \in DOMAIN targets : <<targets[i]>> \notin ds

\* fd = inotify_init(), then the loop that builds `paths`; a target that does
\* not exist raises FileNotFoundError, and wait returns 1.
Setup ==
    /\ pc = "setup"
    /\ fd' = "open"
    /\ IF Missing(target_paths, dirs)
       THEN /\ status' = "NOT_FOUND"
            /\ pc' = "done"
            /\ UNCHANGED paths
       ELSE /\ paths' = SetupPaths(target_paths, recursive_mode, dirs)
            /\ pc' = "add"
            /\ UNCHANGED status
    /\ UNCHANGED <<decoder, notes, names, config, mask, _include_create_event, _watch_descriptors,
                   deleting_watch_descriptor, buf, detected, exc, ci, out,
                   timer, kernel, fs, hist>>

\* "assign watch descriptor to each target directory": one pass of the loop.
AddWatch ==
    /\ pc = "add"
    /\ LET path == paths[ci]
           wd == KAddWd(path)
       IN  /\ watches' = KAddWatches(path, mask)
           /\ nextwd' = KAddNext(path)
           /\ _watch_descriptors' = Put(_watch_descriptors, wd, path)
           /\ lastAdd' = [path |-> path, wd |-> wd]
    /\ IF ci = Len(paths)
       THEN pc' = "arm" /\ ci' = 1
       ELSE pc' = "add" /\ ci' = ci + 1
    /\ UNCHANGED <<decoder, notes, names, config, status, mask, _include_create_event, fd, paths,
                   deleting_watch_descriptor, buf, detected, exc, out,
                   timer, queue, fs,
                   dirs0, removed, resolved, rmCalls, ignoredSeen, reads, moves>>

\* ------------------------------------------------- the watchdog (_reset)
\* _reset: the process that was started before is killed, a new one started.
Reset(p) == "alive"

\* The number of watchdog processes that are asleep after _reset, n being
\* their number before it: the one _process refers to is killed when it is
\* still asleep, and one is started.
LiveNoKill(p, n) == n + 1
Live(p, n) == (IF p = "alive" THEN n - 1 ELSE n) + 1

\* A SIGQUIT that was sent and is not handled yet. The interpreter runs the
\* handler within a few bytecodes, so that a step of the main process is not
\* taken while the signal is pending: the handler runs first.
Pending == sigquit

\* _detect_inotify up to the read: "if timeout > 0: _reset(timeout, _pid)".
Arm ==
    /\ pc = "arm" /\ ~Pending
    /\ _process' = IF timeout > 0 THEN Reset(_process) ELSE _process
    /\ timers' = IF timeout > 0 THEN Live(_process, timers) ELSE timers
    /\ pc' = "read"
    /\ UNCHANGED <<decoder, notes, names, config, status, mask, _include_create_event, fd, paths,
                   _watch_descriptors, deleting_watch_descriptor, buf, detected,
                   exc, ci, out, sigquit, kernel, fs, hist>>

\* _kill_timer: the sleep is over, SIGQUIT is sent to the main process.
TimerExpire ==
    /\ pc # "done"
    /\ _process = "alive"
    /\ _process' = "exited"
    /\ timers' = timers - 1
    /\ sigquit' = TRUE
    /\ UNCHANGED <<decoder, notes, names, config, prog, kernel, fs, hist>>

\* -------------------------------------------------------- the _detect loop
\* buf = os.read(fd, 4096): blocks until the queue holds a record.
Read ==
    /\ pc = "read" /\ ~Pending
    /\ queue # << >> /\ ~eof
    /\ buf' = queue
    /\ queue' = << >>
    /\ reads' = reads + 1
    /\ pc' = "loop"
    /\ UNCHANGED <<decoder, notes, names, config, status, mask, _include_create_event, fd, paths,
                   _watch_descriptors, deleting_watch_descriptor, detected,
                   exc, ci, out, timer, watches, nextwd, fs,
                   dirs0, removed, resolved, lastAdd, rmCalls, ignoredSeen, moves>>

\* os.read returns zero bytes, as it does from then on: the while loop of
\* _detect_inotify has nothing to decode, the generator ends without a
\* record, the for loop of _detect ends and `while True` calls
\* _detect_inotify again.
ReadEmpty ==
    /\ pc = "read" /\ ~Pending
    /\ queue = << >>
    /\ buf' = << >>
    /\ eof' = TRUE
    /\ pc' = "arm"
    /\ UNCHANGED <<decoder, gone, names, config, status, mask, _include_create_event, fd, paths,
                   _watch_descriptors, deleting_watch_descriptor, detected,
                   exc, ci, out, timer, kernel, fs, hist>>

\* KeyboardInterrupt during the read: sys.exit(130).
Interrupt ==
    /\ pc = "read"
    /\ exc' = "SystemExit130"
    /\ pc' = "cleanup"
    /\ UNCHANGED <<decoder, notes, names, config, status, mask, _include_create_event, fd, paths,
                   _watch_descriptors, deleting_watch_descriptor, buf, detected,
                   ci, out, timer, kernel, fs, hist>>

\* "IGNORED event to skip print": the condition of the yield.
EmitsAlways(flags, include) == TRUE
EmitsIgnored(flags, include) == ~(HasFlag(flags, "CREATE") /\ ~include)
Emits(flags, include) ==
    ~(HasFlag(flags, "IGNORED") \/ (HasFlag(flags, "CREATE") /\ ~include))

\* The value of the yield; wd, mask and loc record where it came from.
EventKeepsNul(directory, rec) ==
    [directory |-> directory, flags |-> _decode_flag(rec.mask),
     name |-> rec.name, wd |-> rec.wd, mask |-> rec.mask, loc |-> rec.loc]
Event(directory, rec) ==
    [directory |-> directory, flags |-> _decode_flag(rec.mask),
     name |-> StripNul(rec.name), wd |-> rec.wd, mask |-> rec.mask, loc |-> rec.loc]

\* The next record of the buffer: directory = _watch_descriptors[wd], which
\* raises KeyError on an unknown id, then the yield when the event is shown.
Resolve ==
    /\ pc = "loop" /\ ~Pending
    /\ detected' = Head(buf)
    /\ buf' = Tail(buf)
    /\ resolved' = resolved + 1
    /\ IF Head(buf).wd \notin Keys(_watch_descriptors)
       THEN /\ exc' = "KeyError"
            /\ pc' = "cleanup"
            /\ UNCHANGED out
       ELSE IF Emits(Head(buf).mask, _include_create_event)
       THEN /\ out' = Append(out, Event(Get(_watch_descriptors, Head(buf).wd), Head(buf)))
            /\ pc' = "yielded"
            /\ UNCHANGED exc
       ELSE /\ pc' = "propagate"
            /\ UNCHANGED <<out, exc>>
    /\ UNCHANGED <<decoder, notes, names, config, status, mask, _include_create_event, fd, paths,
                   _watch_descriptors, deleting_watch_descriptor, ci,
                   timer, kernel, fs,
                   dirs0, removed, lastAdd, rmCalls, ignoredSeen, reads, moves>>

\* Monitor mode: the caller asks for the next event and the generator resumes.
Resume ==
    /\ pc = "yielded" /\ ~Pending
    /\ monitor_mode
    /\ pc' = "propagate"
    /\ UNCHANGED <<decoder, notes, names, config, status, mask, _include_create_event, fd, paths,
                   _watch_descriptors, deleting_watch_descriptor, buf, detected,
                   exc, ci, out, timer, kernel, fs, hist>>

\* One-shot mode: next() returns the event and the generator is closed.
ReturnFirst ==
    /\ pc = "yielded"
    /\ ~monitor_mode
    /\ exc' = "GeneratorExit"
    /\ pc' = "cleanup"
    /\ UNCHANGED <<decoder, notes, names, config, status, mask, _include_create_event, fd, paths,
                   _watch_descriptors, deleting_watch_descriptor, buf, detected,
                   ci, out, timer, kernel, fs, hist>>

AfterRecord == IF buf = << >> THEN "arm" ELSE "loop"

\* "deleting_watch_descriptor = None", the last statement of a finalisation.
FinalizedKeeps(slot) == slot
Finalized(slot) == {}

\* "if recursive_mode:" and its three branches, for the record in `detected`,
\* rec being the value of recursive_mode.
PropagateIn(rec) ==
    /\ pc = "propagate" /\ ~Pending
    /\ ignoredSeen' = IF HasFlag(detected.mask, "IGNORED")
                      THEN ignoredSeen \cup {<<detected.wd, detected.loc>>}
                      ELSE ignoredSeen
    /\ IF rec /\ HasFlag(detected.mask, "CREATE") /\ HasFlag(detected.mask, "ISDIR")
       THEN LET path == NewPath(Get(_watch_descriptors, detected.wd), detected.name)
                wd == KAddWd(path)
            IN  /\ watches' = KAddWatches(path, mask)
                /\ nextwd' = KAddNext(path)
                /\ _watch_descriptors' = Put(_watch_descriptors, wd, path)
                /\ lastAdd' = [path |-> path, wd |-> wd]
                /\ pc' = AfterRecord
                /\ UNCHANGED <<deleting_watch_descriptor, queue, exc>>
       ELSE IF rec /\ HasFlag(detected.mask, "DELETE_SELF")
       THEN /\ deleting_watch_descriptor' = {detected.wd}
            /\ pc' = AfterRecord
            /\ UNCHANGED <<_watch_descriptors, kernel, lastAdd, exc>>
       ELSE IF rec /\ HasFlag(detected.mask, "DELETE") /\ HasFlag(detected.mask, "ISDIR")
                 /\ deleting_watch_descriptor # {} /\ deleting_watch_descriptor # {0}
       THEN LET wd == CHOOSE w \in deleting_watch_descriptor : TRUE
            IN  /\ watches' = KRmWatches(wd)
                /\ queue' = KRmQueue(wd)
                /\ IF wd \in Keys(_watch_descriptors)
                   THEN /\ _watch_descriptors' = Del(_watch_descriptors, wd)
                        /\ deleting_watch_descriptor' = Finalized(deleting_watch_descriptor)
                        /\ pc' = AfterRecord
                        /\ UNCHANGED exc
                   ELSE /\ exc' = "KeyError"
                        /\ pc' = "cleanup"
                        /\ UNCHANGED <<_watch_descriptors, deleting_watch_descriptor>>
                /\ UNCHANGED <<nextwd, lastAdd>>
       ELSE /\ pc' = AfterRecord
            /\ UNCHANGED <<_watch_descriptors, deleting_watch_descriptor, kernel,
                           lastAdd, exc>>
    /\ UNCHANGED <<decoder, notes, names, config, status, mask, _include_create_event, fd, paths,
                   buf, detected, ci, out, timer, fs,
                   dirs0, removed, resolved, rmCalls, reads, moves>>

PropagateAnyMode == PropagateIn(TRUE)
Propagate == PropagateIn(recursive_mode)

\* ------------------------------------------------ SIGQUIT and the cleanup
\* _handler: sys.exit(2).
HandlerExitsZero == "GeneratorExit"
HandlerExc == "SystemExit2"

StatusOf(e) ==
    CASE e = "GeneratorExit" -> "OK"
      [] e = "SystemExit2"   -> "TIMED_OUT"
      [] e = "SystemExit130" -> "INTERRUPTED"
      [] e = "KeyError"      -> "CRASHED"

ExitCode(st) ==
    CASE st = "OK"          -> 0
      [] st = "NOT_FOUND"   -> 1
      [] st = "TIMED_OUT"   -> 2
      [] st = "INTERRUPTED" -> 130
      [] st = "CRASHED"     -> 1

InFinally == pc \in {"cleanup", "rm", "close"}

\* The handler runs between two bytecodes of the main process. In the frames
\* of _detect the SystemExit unwinds into the finally block; raised in the
\* caller of a suspended generator it ends the process, and the generator is
\* finalised, running the finally block; raised inside the finally block it
\* abandons the rest of it (and is swallowed when the block runs in the
\* generator's finaliser).
Handler ==
    /\ sigquit
    /\ sigquit' = FALSE
    /\ \/ /\ pc \in {"arm", "read", "loop", "propagate"} \/ (pc = "yielded" /\ monitor_mode)
          /\ exc' = HandlerExc
          /\ pc' = "cleanup"
          /\ UNCHANGED status
       \/ /\ InFinally
          /\ status' = IF exc = "GeneratorExit" THEN "OK" ELSE StatusOf(HandlerExc)
          /\ pc' = "done"
          /\ UNCHANGED exc
    /\ UNCHANGED <<decoder, notes, names, config, mask, _include_create_event, fd, paths,
                   _watch_descriptors, deleting_watch_descriptor, buf, detected,
                   ci, out, _process, timers, kernel, fs, hist>>

\* finally: "if _process: _process.kill()".
KillNot(p) == p
Kill(p) == IF p = "alive" THEN "killed" ELSE p

CleanupKill ==
    /\ pc = "cleanup" /\ ~Pending
    /\ _process' = Kill(_process)
    /\ timers' = IF _process = "alive" THEN timers - 1 ELSE timers
    /\ ci' = 1
    /\ pc' = IF _watch_descriptors = << >> THEN "close" ELSE "rm"
    /\ UNCHANGED <<decoder, notes, names, config, status, mask, _include_create_event, fd, paths,
                   _watch_descriptors, deleting_watch_descriptor, buf, detected,
                   exc, out, sigquit, kernel, fs, hist>>

\* finally: one pass of "for wd in _watch_descriptors.keys()".
CleanupRm ==
    /\ pc = "rm" /\ ~Pending
    /\ LET wd == _watch_descriptors[ci][1]
       IN  /\ watches' = KRmWatches(wd)
           /\ queue' = KRmQueue(wd)
           /\ rmCalls' = rmCalls \cup {wd}
    /\ IF ci = Len(_watch_descriptors)
       THEN pc' = "close" /\ ci' = 1
       ELSE pc' = "rm" /\ ci' = ci + 1
    /\ UNCHANGED <<decoder, notes, names, config, status, mask, _include_create_event, fd, paths,
                   _watch_descriptors, deleting_watch_descriptor, buf, detected,
                   exc, out, timer, nextwd, fs,
                   dirs0, removed, resolved, lastAdd, ignoredSeen, reads, moves>>

\* finally: os.close(fd), after which the pending exception ends the session.
CleanupClose ==
    /\ pc = "close" /\ ~Pending
    /\ fd' = "closed"
    /\ watches' = {}
    /\ queue' = << >>
    /\ status' = StatusOf(exc)
    /\ pc' = "done"
    /\ UNCHANGED <<decoder, notes, names, config, mask, _include_create_event, paths,
                   _watch_descriptors, deleting_watch_descriptor, buf, detected,
                   exc, ci, out, timer, nextwd, fs, hist>>

\* ----------------------------------------------------------- specification
Next ==
    \/ ParseArgs
    \/ Setup
    \/ AddWatch
    \/ Arm
    \/ TimerExpire
    \/ Read
    \/ Interrupt
    \/ Resolve
    \/ Resume
    \/ ReturnFirst
    \/ Propagate
    \/ Handler
    \/ CleanupKill
    \/ CleanupRm
    \/ CleanupClose
    \/ Env

Spec == Init /\ [][Next]_vars

\* The sessions that have a timeout, under the scheduling the code relies on:
\* the watchdog process wakes up when its sleep is over, a pending signal is
\* handled, and the finally block, once entered, runs on.
TimeoutInit == Init /\ timeout > 0

FairSpec ==
    /\ TimeoutInit
    /\ [][Next]_vars
    /\ WF_vars(TimerExpire)
    /\ WF_vars(Handler)
    /\ WF_vars(CleanupKill \/ CleanupRm \/ CleanupClose)

\* The codec alone: a filter of up to MaxNames names is encoded as wait
\* encodes it, and the mask decoded as _decode_flag decodes it.
Filters == UNION {[1 .. k -> EventNames] : k \in 0 .. MaxNames}

CodecInit ==
    /\ events \in Filters
    /\ monitor_mode = FALSE /\ recursive_mode = FALSE /\ timeout = 0
    /\ target_paths = <<"r">>
    /\ pc = "codec" /\ status = "RUNNING"
    /\ mask = {} /\ _include_create_event = FALSE
    /\ fd = "none" /\ paths = << >>
    /\ _watch_descriptors = << >> /\ deleting_watch_descriptor = {}
    /\ buf = << >> /\ detected = NoRec /\ exc = "none" /\ ci = 1 /\ out = << >>
    /\ _process = "None" /\ sigquit = FALSE /\ timers = 0
    /\ watches = {} /\ nextwd = 1 /\ queue = << >>
    /\ dirs = {<<r>> : r \in Roots}
    /\ files = {} /\ unlinked = {} /\ ops = 0
    /\ dirs0 = dirs /\ removed = {} /\ resolved = 0
    /\ lastAdd = NoAdd /\ rmCalls = {} /\ ignoredSeen = {} /\ reads = 0
    /\ moves = << >>
    /\ gone = << >> /\ eof = FALSE
    /\ written = << >> /\ bytes = << >> /\ idx = 0 /\ yielded = << >>
    /\ names = << >>

\* wait: "initialize event mask".
CodecEncode ==
    /\ pc = "codec"
    /\ mask' = Encode(events)
    /\ pc' = "encoded"
    /\ UNCHANGED <<decoder, notes, names, config, status, _include_create_event, fd, paths,
                   _watch_descriptors, deleting_watch_descriptor, buf, detected,
                   exc, ci, out, timer, kernel, fs, hist>>

\* _decode_flag(mask)
CodecDecode ==
    /\ pc = "encoded"
    /\ names' = _decode_flag(mask)
    /\ pc' = "decoded"
    /\ UNCHANGED <<decoder, notes, config, status, mask, _include_create_event, fd, paths,
                   _watch_descriptors, deleting_watch_descriptor, buf, detected,
                   exc, ci, out, timer, kernel, fs, hist>>

CodecNext == CodecEncode \/ CodecDecode

CodecSpec == CodecInit /\ [][CodecNext]_vars

\* The decoder alone: _decode_flag applied to every mask of the bits up to
\* MaxBit.
DecodeInit ==
    /\ mask \in SUBSET (0 .. MaxBit)
    /\ events = << >>
    /\ monitor_mode = FALSE /\ recursive_mode = FALSE /\ timeout = 0
    /\ target_paths = <<"r">>
    /\ pc = "encoded" /\ status = "RUNNING"
    /\ _include_create_event = FALSE
    /\ fd = "none" /\ paths = << >>
    /\ _watch_descriptors = << >> /\ deleting_watch_descriptor = {}
    /\ buf = << >> /\ detected = NoRec /\ exc = "none" /\ ci = 1 /\ out = << >>
    /\ _process = "None" /\ sigquit = FALSE /\ timers = 0
    /\ watches = {} /\ nextwd = 1 /\ queue = << >>
    /\ dirs = {<<r>> : r \in Roots}
    /\ files = {} /\ unlinked = {} /\ ops = 0
    /\ dirs0 = dirs /\ removed = {} /\ resolved = 0
    /\ lastAdd = NoAdd /\ rmCalls = {} /\ ignoredSeen = {} /\ reads = 0
    /\ moves = << >>
    /\ gone = << >> /\ eof = FALSE
    /\ written = << >> /\ bytes = << >> /\ idx = 0 /\ yielded = << >>
    /\ names = << >>

DecodeSpec == DecodeInit /\ [][CodecDecode]_vars

\* The decoder on every mask, and the sessions whose filter is move.
MoveInit == DecodeInit \/ (Init /\ events = <<"MOVE">>)

MoveNext == CodecDecode \/ Next

MoveSpec == MoveInit /\ [][MoveNext]_vars

\* The module's globals and the kernel before wait() is called.
Blank ==
    /\ status = "RUNNING"
    /\ mask = {} /\ _include_create_event = FALSE
    /\ fd = "none" /\ paths = << >>
    /\ _watch_descriptors = << >> /\ deleting_watch_descriptor = {}
    /\ buf = << >> /\ detected = NoRec /\ exc = "none" /\ ci = 1 /\ out = << >>
    /\ _process = "None" /\ sigquit = FALSE /\ timers = 0
    /\ watches = {} /\ nextwd = 1 /\ queue = << >>
    /\ files = {} /\ unlinked = {} /\ ops = 0
    /\ removed = {} /\ resolved = 0
    /\ lastAdd = NoAdd /\ rmCalls = {} /\ ignoredSeen = {} /\ reads = 0
    /\ moves = << >>
    /\ gone = << >> /\ eof = FALSE
    /\ names = << >>

\* The recursive sessions on a tree with two subdirectories that have
\* different parents, r/a/b and r/b, so that their removals can overlap.
OverlapTree == {<<"r", "a">>, <<"r", "a", "b">>, <<"r", "b">>}

OverlapInit ==
    /\ events = << >>
    /\ monitor_mode \in BOOLEAN
    /\ recursive_mode = TRUE
    /\ timeout \in Timeouts
    /\ target_paths = <<"r">>
    /\ dirs = {<<r>> : r \in Roots} \cup OverlapTree
    /\ dirs0 = dirs
    /\ pc = "start"
    /\ written = << >> /\ bytes = << >> /\ idx = 0 /\ yielded = << >>
    /\ Blank

OverlapSpec == OverlapInit /\ [][Next]_vars

\* The sessions with an empty filter whose channel may return zero bytes.
EofInit == Init /\ events = << >>

EofNext == ReadEmpty \/ Next

EofSpec == EofInit /\ [][EofNext]_vars

\* ------------------------------------------------------------------ claims
\* C1: a session with a timeout that is blocked in the read with its watchdog
\* armed and to which no event is delivered (nor an interrupt) eventually
\* terminates, and it terminates with status TIMED_OUT (exit code 2), not OK.
C1_TimeoutTerminates ==
    (timeout > 0 /\ pc = "read")
        ~> (\/ pc = "loop"
            \/ exc = "SystemExit130"
            \/ (pc = "done" /\ status = "TIMED_OUT" /\ ExitCode(status) = 2))

C1_Witness ==
    timeout > 0 /\ reads = 0 /\ pc = "done" /\ status = "TIMED_OUT" /\ fd = "closed"

\* C2: on every exit path of a session (the one-shot event returned, the
\* watchdog expiring at any point, an interrupt during the read), when the
\* session has terminated every watch id of the watch table has been
\* unregistered from the kernel and the channel is closed.
C2_CleanupOnEveryExit ==
    (pc = "done" /\ status \in {"OK", "TIMED_OUT", "INTERRUPTED"})
        => /\ fd = "closed"
           /\ \A w \in watches : w.wd \notin Keys(_watch_descriptors)
           /\ Keys(_watch_descriptors) \subseteq rmCalls

\* C3: in recursive mode, whatever the filter, once the IGNORED record of a
\* deleted subdirectory's watch id has been processed, that id is no longer
\* a key of the watch table.
C3_IgnoredRemovesEntry ==
    recursive_mode =>
        \A x \in ignoredSeen : Len(x[2]) > 1 => x[1] \notin Keys(_watch_descriptors)

\* C4: the watch id of every record the loop resolves is a key of the watch
\* table, so that the lookup never raises KeyError.
C4_ResolveNeverFails == exc # "KeyError"

\* C5: every event emitted for a record (wd, mask, name) is the triple (the
\* path the watch table maps wd to, decode(mask), the name without its NUL
\* padding), one record yields at most one event, a file created in a watched
\* directory is reported as (dir + "/", [CREATE], name) and a created
\* subdirectory as (dir + "/", [CREATE, ISDIR], name).
C5_EmittedTriple ==
    [][out' # out =>
        /\ Len(out') = Len(out) + 1
        /\ SubSeq(out', 1, Len(out)) = out
        /\ resolved' = resolved + 1
        /\ buf # << >>
        /\ LET e == out'[Len(out')]
               r == Head(buf)
           IN  /\ r.wd \in Keys(_watch_descriptors)
               /\ e.directory = Get(_watch_descriptors, r.wd)
               /\ e.flags = _decode_flag(r.mask)
               /\ e.name = SelectSeq(r.name, LAMBDA c : c # NUL)
               /\ r.mask = _EVENTS["CREATE"] =>
                     /\ e.flags = <<"CREATE">>
                     /\ e.directory = Join(r.loc) \o <<SEP>>
                     /\ e.name = <<r.name[1]>>
               /\ r.mask = _EVENTS["CREATE"] \cup _EVENTS["ISDIR"] =>
                     /\ e.flags = <<"CREATE", "ISDIR">>
                     /\ e.directory = Join(r.loc) \o <<SEP>>
                     /\ e.name = <<r.name[1]>>]_vars

C5_Witness ==
    \E i, j \in DOMAIN out :
        /\ out[i].flags = <<"CREATE">> /\ out[i].name = <<"f">>
        /\ out[i].directory = <<"r", SEP>>
        /\ out[j].flags = <<"CREATE", "ISDIR">> /\ out[j].name = <<"a">>

\* The directories the caller asked to watch.
Requested == {<<target_paths[i]>> : i \in DOMAIN target_paths}

\* C6: no event is emitted for a change in a directory that has no entry in
\* the watch table: the unwatched sibling of the watched directory, or, in
\* non-recursive mode, a subdirectory of a watched directory.
C6_NoEventOutsideWatched ==
    \A i \in DOMAIN out :
        out[i].loc # << >> =>
            /\ out[i].directory = DirPath(out[i].loc)
            /\ out[i].loc[1] \in {target_paths[k] : k \in DOMAIN target_paths}
            /\ ~recursive_mode => out[i].loc \in Requested

\* A file was created in the sibling and one in a subdirectory of the watched
\* directory, and the non-recursive session, blocked in its read, was
\* delivered nothing.
C6_Witness ==
    /\ ~recursive_mode /\ pc = "read" /\ queue = << >> /\ out = << >> /\ reads = 0
    /\ <<<<"s">>, "f">> \in files
    /\ <<<<"r", "a">>, "f">> \in files

\* The directories that existed when the session started, lie beneath a
\* requested root and were not removed since.
PreExisting == {d \in dirs0 \ removed : <<d[1]>> \in Requested}

\* C7: when setup completes in recursive mode the watch table holds, for each
\* requested root and each directory that already existed beneath it at any
\* depth, an entry under its live watch id, so that a file created in a
\* pre-existing subdirectory is reported with that subdirectory's path; in
\* non-recursive mode only the requested paths have entries.
C7_SetupSeedsTree ==
    /\ (pc = "arm" /\ resolved = 0) =>
          IF recursive_mode
          THEN \A d \in PreExisting :
                  \E w \in watches :
                      /\ w.dir = d
                      /\ w.wd \in Keys(_watch_descriptors)
                      /\ Get(_watch_descriptors, w.wd) = Join(d) \o <<SEP>>
          ELSE Values(_watch_descriptors) = {Join(d) \o <<SEP>> : d \in Requested}
    /\ \A i \in DOMAIN out :
          (out[i].mask = _EVENTS["CREATE"] /\ out[i].loc \in dirs0) =>
              out[i].directory = Join(out[i].loc) \o <<SEP>>

C7_Witness ==
    /\ recursive_mode
    /\ <<"r", "a", "b">> \in PreExisting
    /\ \E i \in DOMAIN out :
          /\ out[i].loc = <<"r", "a", "b">>
          /\ out[i].flags = <<"CREATE">>
          /\ out[i].directory = <<"r", SEP, "a", SEP, "b", SEP>>

\* C8: an event with the create bit is emitted only if the caller's filter
\* included create (an empty filter includes it); when recursive mode adds
\* create to the kernel mask for a caller who did not ask for it, no event
\* with the create bit is emitted; the decision is taken at startup and does
\* not change during the session.
Asked(n) == events = << >> \/ \E i \in DOMAIN events : events[i] = n

C8_CreateOnlyIfAsked ==
    /\ [](\A i \in DOMAIN out : HasFlag(out[i].mask, "CREATE") => Asked("CREATE"))
    /\ [](pc # "start" => (_include_create_event <=> Asked("CREATE")))
    /\ [][pc # "start" => _include_create_event' = _include_create_event]_vars

\* Create was added to the mask of a caller who did not ask for it, and the
\* record of a created subdirectory went by without an event.
C8_Witness ==
    /\ recursive_mode /\ ~Asked("CREATE") /\ HasFlag(mask, "CREATE")
    /\ pc = "propagate" /\ HasFlag(detected.mask, "CREATE")
    /\ out = << >>

\* C9: in recursive mode, processing a record with the create and the
\* is-directory bit from watch id w registers a watch on path(w) + name +
\* separator; afterwards the watch table maps the returned id to exactly that
\* path and every other entry is unchanged.
C9_NewSubdirRegistered ==
    [][(/\ pc = "propagate" /\ pc' \in {"arm", "loop"}
        /\ recursive_mode
        /\ HasFlag(detected.mask, "CREATE") /\ HasFlag(detected.mask, "ISDIR"))
       =>
       LET p == Get(_watch_descriptors, detected.wd)
                   \o SelectSeq(detected.name, LAMBDA c : c # NUL) \o <<SEP>>
           id == lastAdd'.wd
       IN  /\ lastAdd'.path = p
           /\ Keys(_watch_descriptors') = Keys(_watch_descriptors) \cup {id}
           /\ Get(_watch_descriptors', id) = p
           /\ \A k \in Keys(_watch_descriptors) \ {id} :
                 Get(_watch_descriptors', k) = Get(_watch_descriptors, k)
           /\ (Components(p) \in dirs) =>
                 \E w \in watches' : w.wd = id /\ w.dir = Components(p)]_vars

C9_Witness ==
    /\ recursive_mode /\ pc \in {"arm", "loop"}
    /\ HasFlag(detected.mask, "CREATE") /\ HasFlag(detected.mask, "ISDIR")
    /\ lastAdd.path = <<"r", SEP, "a", SEP>> /\ lastAdd.wd = 2
    /\ Get(_watch_descriptors, 2) = <<"r", SEP, "a", SEP>>
    /\ Get(_watch_descriptors, 1) = <<"r", SEP>>

\* C10: for every name n of the enumeration, decoding the mask that encodes
\* the one-name filter {n} returns exactly [n].
C10_SingleNameRoundTrip ==
    (pc = "decoded" /\ Len(events) = 1) => names = events

\* C11: for every mask, decode returns no composite name: neither CLOSE nor
\* MOVE is in the result, even when the bits of CLOSE_WRITE, CLOSE_NOWRITE,
\* MOVED_FROM or MOVED_TO are set.
C11_NoCompositeDecoded ==
    pc = "decoded" =>
        \A i \in DOMAIN names : names[i] \notin {"CLOSE", "MOVE"}

\* The events a sequence of notified renames is reported as.
MoveEvents(ms) ==
    [i \in 1 .. 2 * Len(ms) |->
        IF i % 2 = 1
        THEN <<DirPath(ms[(i + 1) \div 2][1]), <<"MOVED_FROM">>, <<ms[(i + 1) \div 2][2]>> >>
        ELSE <<DirPath(ms[i \div 2][1]), <<"MOVED_TO">>, <<ms[i \div 2][3]>> >>]

\* C12: for every mask, decode never returns MOVE and returns MOVED_FROM
\* exactly when bit 0x40 is set and MOVED_TO exactly when bit 0x80 is set;
\* and the renames made inside a watched directory under filter move are
\* reported, in continuous mode, as two events each: [MOVED_FROM] with the
\* old name, then [MOVED_TO] with the new name.
C12_MoveDecodedApart ==
    /\ pc = "decoded" =>
          /\ \A i \in DOMAIN names : names[i] # "MOVE"
          /\ (\E i \in DOMAIN names : names[i] = "MOVED_FROM") <=> 6 \in mask
          /\ (\E i \in DOMAIN names : names[i] = "MOVED_TO") <=> 7 \in mask
    /\ (events = <<"MOVE">> /\ monitor_mode /\ pc = "read" /\ queue = << >>) =>
          [i \in DOMAIN out |-> <<out[i].directory, out[i].flags, out[i].name>>]
              = MoveEvents(moves)

C12_Witness ==
    /\ events = <<"MOVE">> /\ monitor_mode /\ pc = "read" /\ queue = << >>
    /\ moves = << <<<<"r">>, "f", "g">> >>
    /\ Len(out) = 2
    /\ out[1].flags = <<"MOVED_FROM">> /\ out[1].name = <<"f">>
    /\ out[2].flags = <<"MOVED_TO">> /\ out[2].name = <<"g">>

\* C13: in a recursive session, after any sequence of subdirectory creations
\* and deletions whose events have all been processed, the watch table is
\* one-to-one: no two entries share a watch id, no two entries hold the same
\* path, and every entry's watch id is live in the kernel.
C13_TableOneToOne ==
    (recursive_mode /\ pc = "read" /\ queue = << >> /\ unlinked = {}
        /\ <<"r">> \in dirs) =>
        /\ \A i, j \in DOMAIN _watch_descriptors :
              i # j => /\ _watch_descriptors[i][1] # _watch_descriptors[j][1]
                       /\ _watch_descriptors[i][2] # _watch_descriptors[j][2]
        /\ \A k \in Keys(_watch_descriptors) : \E w \in watches : w.wd = k

\* C14: at every instant at most one watchdog timer is live, the one _process
\* refers to: arming a timer while one is outstanding cancels the outstanding
\* one before the new one starts.
C14_SingleTimer ==
    /\ timers \in {0, 1}
    /\ timers = 1 <=> _process = "alive"

\* The timer was re-armed after a read while the one armed before that read
\* was still asleep.
C14_Witness ==
    /\ monitor_mode /\ timeout > 0 /\ pc = "read" /\ reads >= 1
    /\ ~sigquit /\ _process = "alive" /\ timers = 1

\* C15: the watchdog is reset on every successful read: once a read has
\* returned an event, the timer that was armed before that read no longer
\* expires and terminates the session, so a continuous session ends TIMED_OUT
\* only on the expiry of a timer armed after the most recent read: no timer
\* expires between the return of a read and the arming that follows it.
C15_ResetOnRead ==
    [][(monitor_mode /\ ~sigquit /\ sigquit') =>
          ~(pc \in {"loop", "yielded", "propagate"} \/ (pc = "arm" /\ reads > 0))]_vars

\* C16: if any requested root path does not exist, setup ends with status
\* NOT_FOUND (1) before any kernel registration: add-watch is never called
\* and the watch table is left unchanged, even when other requested paths
\* exist and precede the missing one.
C16_MissingRootAborts ==
    /\ [][(/\ pc = "setup" /\ pc' # "setup"
           /\ \E i \in DOMAIN target_paths : <<target_paths[i]>> \notin dirs)
          => /\ pc' = "done" /\ status' = "NOT_FOUND" /\ ExitCode(status') = 1
             /\ watches' = watches /\ nextwd' = nextwd
             /\ _watch_descriptors' = _watch_descriptors]_vars
    /\ [](status = "NOT_FOUND" =>
             /\ pc = "done"
             /\ watches = {} /\ nextwd = 1 /\ lastAdd = NoAdd
             /\ _watch_descriptors = << >>)

C16_Witness ==
    /\ target_paths = <<"r", "x">> /\ <<"r">> \in dirs
    /\ pc = "done" /\ status = "NOT_FOUND"

\* C17: an interrupt delivered while the loop is blocked in the read ends
\* the whole session: no further read is issued, and the session terminates
\* with the status INTERRUPTED, 130, which is none of 0, 1 and 2.
C17_InterruptEndsSession ==
    exc = "SystemExit130" =>
        /\ pc \in {"cleanup", "rm", "close", "done"}
        /\ pc = "done" =>
              /\ status = "INTERRUPTED"
              /\ ExitCode(status) = 130
              /\ ExitCode(status) \notin {ExitCode("OK"), ExitCode("NOT_FOUND"),
                                           ExitCode("TIMED_OUT")}

\* C18: in one-shot mode the value returned is the first record, in arrival
\* order, that is neither an ignored event nor a suppressed create event: the
\* records before it are skipped, propagation still being applied to them,
\* and once it is returned no further read is issued and no later record
\* changes the watch table.
C18_OneShotFirstQualifying ==
    /\ [][(~monitor_mode /\ resolved' = resolved + 1
            /\ Head(buf).wd \in Keys(_watch_descriptors))
          => /\ out = << >>
             /\ IF \/ 15 \in Head(buf).mask
                    \/ (8 \in Head(buf).mask /\ ~Asked("CREATE"))
                THEN out' = out /\ pc' = "propagate"
                ELSE /\ Len(out') = 1
                     /\ out'[1].wd = Head(buf).wd
                     /\ out'[1].mask = Head(buf).mask
                     /\ out'[1].name = SelectSeq(Head(buf).name, LAMBDA c : c # NUL)
                     /\ pc' = "yielded"]_vars
    /\ [][(~monitor_mode /\ out = << >> /\ recursive_mode
            /\ pc = "propagate" /\ pc' \in {"arm", "loop"}
            /\ 8 \in detected.mask /\ 30 \in detected.mask)
          => Get(_watch_descriptors, detected.wd)
                 \o SelectSeq(detected.name, LAMBDA c : c # NUL) \o <<SEP>>
                     \in Values(_watch_descriptors')]_vars
    /\ [][(~monitor_mode /\ out # << >>)
          => /\ out' = out /\ reads' = reads /\ resolved' = resolved
             /\ _watch_descriptors' = _watch_descriptors
             /\ pc' \notin {"arm", "read", "loop", "propagate"}]_vars

\* The one-shot session skipped the record of a created subdirectory, which
\* it registered, and returned the deletion that arrived after it.
C18_Witness ==
    /\ ~monitor_mode /\ recursive_mode /\ events = <<"DELETE">>
    /\ dirs0 = {<<"r">>, <<"s">>}
    /\ pc = "done" /\ status = "OK"
    /\ resolved >= 2 /\ lastAdd.wd = 2
    /\ Len(out) = 1 /\ out[1].flags = <<"DELETE", "ISDIR">>

\* C19: in recursive mode, when the registration of a newly created
\* subdirectory fails (the directory is already gone), the failure is skipped:
\* the watch table is left unchanged, no entry being added under the error
\* value, and the session continues with the next record.
C19_FailedAddSkipped ==
    [][(/\ recursive_mode /\ pc = "propagate"
        /\ 8 \in detected.mask /\ 30 \in detected.mask
        /\ pc' # "propagate" /\ sigquit' = sigquit
        /\ KAddWd(NewPath(Get(_watch_descriptors, detected.wd), detected.name)) = -1)
       => /\ _watch_descriptors' = _watch_descriptors
          /\ pc' \in {"arm", "loop"}]_vars

\* C20: in continuous recursive mode the propagation step of a record is
\* applied to the watch table before the record's event is emitted, so that
\* the table holds the watch of a new subdirectory when the caller receives
\* the subdirectory's create event.
C20_PropagateBeforeEmit ==
    (/\ monitor_mode /\ recursive_mode /\ pc = "yielded"
     /\ 8 \in detected.mask /\ 30 \in detected.mask)
        => NewPath(Get(_watch_descriptors, detected.wd), detected.name)
               \in Values(_watch_descriptors)

\* C22: when a session ends for a reason other than the watchdog's expiry
\* (the one-shot event returned, an interrupt during the read), no watchdog
\* timer is live any more that could later deliver its signal.
C22_TimerCancelledAtExit ==
    (pc = "done" /\ status \in {"OK", "INTERRUPTED"}) =>
        /\ timers = 0
        /\ _process # "alive"

C22_Witness ==
    /\ timeout > 0 /\ pc = "done" /\ status = "INTERRUPTED"
    /\ _process = "killed" /\ ~sigquit

\* C26: in non-recursive mode the monitoring loop leaves the watch table as
\* setup produced it, whatever the flags of the records it processes, and
\* calls neither add-watch nor remove-watch before the cleanup.
C26_NonRecursiveFrame ==
    [][(~recursive_mode /\ pc \in {"arm", "read", "loop", "yielded", "propagate"})
          => /\ _watch_descriptors' = _watch_descriptors
             /\ lastAdd' = lastAdd /\ nextwd' = nextwd
             /\ rmCalls' = rmCalls
             /\ deleting_watch_descriptor' = deleting_watch_descriptor]_vars

\* The non-recursive loop has processed the record of a created subdirectory.
C26_Witness ==
    /\ ~recursive_mode /\ pc \in {"arm", "loop"} /\ resolved >= 1
    /\ 8 \in detected.mask /\ 30 \in detected.mask
    /\ _watch_descriptors = << <<1, <<"r", SEP>> >> >>

\* C27: an event whose mask has the ignored bit is never emitted to the
\* caller, in one-shot and in continuous mode, whatever the filter.
C27_IgnoredNeverEmitted ==
    \A i \in DOMAIN out : 15 \notin out[i].mask

\* The record of an ignored event was processed after an event was emitted.
C27_Witness ==
    /\ ignoredSeen # {} /\ out # << >>
    /\ pc \in {"arm", "loop"} /\ 15 \in detected.mask

\* C28: in every state of the monitoring loop the pending-removal slot is
\* empty or holds a watch id that is a key of the watch table, so that a
\* finalisation never deletes a missing key; and a finalisation empties the
\* slot.
C28_SlotHoldsKey ==
    /\ [](deleting_watch_descriptor \subseteq Keys(_watch_descriptors))
    /\ [][(/\ pc = "propagate" /\ pc' # "propagate" /\ sigquit' = sigquit
           /\ recursive_mode /\ deleting_watch_descriptor # {}
           /\ 8 \notin detected.mask /\ 10 \notin detected.mask
           /\ 9 \in detected.mask /\ 30 \in detected.mask)
          => /\ deleting_watch_descriptor' = {}
             /\ exc' = exc
             /\ Keys(_watch_descriptors')
                    = Keys(_watch_descriptors) \ deleting_watch_descriptor]_vars

\* The removal of r/a/b was marked and finalised.
C28_Witness ==
    /\ recursive_mode /\ <<"r", "a", "b">> \in dirs0
    /\ pc \in {"arm", "loop"}
    /\ 9 \in detected.mask /\ 30 \in detected.mask
    /\ deleting_watch_descriptor = {}
    /\ Keys(_watch_descriptors) = {1, 2}

\* C21: in recursive mode, when two watched subdirectories A and B are
\* deleted with overlapping lifecycles and their confirmations arrive in the
\* order of their delete-self events (delete-self A, delete-self B,
\* confirmation A, confirmation B), both watch ids end up removed from the
\* watch table and no other entry is removed.
C21_OverlappingDeletions ==
    (/\ recursive_mode /\ pc = "read" /\ queue = << >>
     /\ \E A, B \in dirs0 :
           /\ A # B
           /\ gone = << <<"self", A>>, <<"self", B>>, <<"conf", A>>, <<"conf", B>> >>)
        => Values(_watch_descriptors)
               = {DirPath(d) : d \in {x \in dirs0 \ removed : x[1] = "r"}}

\* C24: when the read returns zero bytes the event sequence ends: the loop
\* issues no further read and the session goes on to cleanup and termination.
C24_ZeroReadEnds ==
    eof => pc \in {"cleanup", "rm", "close", "done"}

\* C25: after a session has torn down, the watch table holds no entries, so
\* that a later session in the same process starts with an empty table.
C25_TableEmptyAfterTeardown ==
    (pc = "done" /\ fd = "closed") => _watch_descriptors = << >>

\* ---------------------------------------------------------------------
\* The decoder by itself, on the bytes: _detect_inotify reads one buffer
\* and walks it with struct.unpack_from('iIII', buf, i).

MaxRecs == 3

\* struct.calcsize('iIII')
fmt_size == 16

Bit(m, k) == IF k \in m THEN 1 ELSE 0

MaskByte(m, j) ==
    Bit(m, 8 * j) + 2 * Bit(m, 8 * j + 1) + 4 * Bit(m, 8 * j + 2)
    + 8 * Bit(m, 8 * j + 3) + 16 * Bit(m, 8 * j + 4) + 32 * Bit(m, 8 * j + 5)
    + 64 * Bit(m, 8 * j + 6) + 128 * Bit(m, 8 * j + 7)

\* Little-endian 32 bits of an integer, two's complement below zero.
Bytes32(v) ==
    LET u == IF v < 0 THEN v + 16777216 ELSE v
    IN  <<u % 256, (u \div 256) % 256, (u \div 65536) % 256,
          IF v < 0 THEN 255 ELSE u \div 16777216>>

\* One record as the kernel writes it: struct inotify_event, then the name.
PackRecord(r) ==
    Bytes32(r.wd) \o <<MaskByte(r.mask, 0), MaskByte(r.mask, 1),
                       MaskByte(r.mask, 2), MaskByte(r.mask, 3)>>
    \o Bytes32(r.cookie) \o Bytes32(Len(r.name)) \o r.name

RECURSIVE PackAll(_)
PackAll(rs) ==
    IF rs = << >> THEN << >> ELSE PackRecord(Head(rs)) \o PackAll(Tail(rs))

\* Format 'i' at offset i (offsets count from 0, as in the code).
UnpackI(b, i) ==
    b[i + 1] + 256 * b[i + 2] + 65536 * b[i + 3]
    + 16777216 * (IF b[i + 4] >= 128 THEN b[i + 4] - 256 ELSE b[i + 4])

\* Format 'I' of the mask, as the set of its bits.
UnpackMask(b, i) ==
    {k \in 0..31 : (b[i + 1 + (k \div 8)] \div (2 ^ (k % 8))) % 2 = 1}

\* Format 'I' of name_len.  A value from 2^30 on is longer than any buffer
\* and stands for itself as 2^30: the slice and the loop test see no
\* difference.
UnpackLen(b, i) ==
    IF b[i + 4] >= 64 THEN 1073741824 ELSE UnpackI(b, i)

\* buf[i:j]: a slice stops at the end of the buffer.
Slice(b, i, j) ==
    SubSeq(b, i + 1, IF j > Len(b) THEN Len(b) ELSE j)

\* name.decode(): UTF-8.  Bytes below 128 decode to themselves; the byte
\* 255 is valid nowhere in UTF-8 and raises UnicodeDecodeError.
Decodable(name) == \A k \in DOMAIN name : name[k] < 128

\* i += fmt_size; i += name_len
Advance(i, n) == i + fmt_size + n

\* A name as the kernel pads it: the bytes of the name, then NULs.
NameBytes(c) == [k \in 1..PadTo |-> IF k = 1 THEN c ELSE 0]

\* The records written: create f, create directory a, moved_from with a
\* cookie, ignored without a name, queue overflow with watch id -1, and a
\* file whose name is the single byte 0xff.
StreamRecs ==
    { [wd |-> 1, mask |-> {8}, cookie |-> 0, name |-> NameBytes(102)],
      [wd |-> 1, mask |-> {8, 30}, cookie |-> 0, name |-> NameBytes(97)],
      [wd |-> 2, mask |-> {6}, cookie |-> 5, name |-> NameBytes(102)],
      [wd |-> 2, mask |-> {15}, cookie |-> 0, name |-> << >>],
      [wd |-> -1, mask |-> {14}, cookie |-> 0, name |-> << >>],
      [wd |-> 1, mask |-> {8}, cookie |-> 0, name |-> NameBytes(255)] }

StreamInit ==
    /\ events = << >> /\ monitor_mode = TRUE /\ recursive_mode = FALSE
    /\ timeout = 0 /\ target_paths = <<"r">>
    /\ dirs = {<<r>> : r \in Roots} /\ dirs0 = dirs
    /\ Blank
    /\ pc = "stream"
    /\ written \in UNION {[1..n -> StreamRecs] : n \in 0..MaxRecs}
    /\ bytes = << >> /\ idx = 0 /\ yielded = << >>

\* buf = os.read(fd, 4096); i = 0
StreamRead ==
    /\ pc = "stream"
    /\ bytes' = PackAll(written)
    /\ idx' = 0
    /\ pc' = "decode"
    /\ UNCHANGED <<written, yielded, notes, names, config, status, mask,
                   _include_create_event, fd, paths, _watch_descriptors,
                   deleting_watch_descriptor, buf, detected, exc, ci, out,
                   timer, kernel, fs, hist>>

\* One turn of `while i < len(buf)`.
StreamStep ==
    /\ pc = "decode"
    /\ idx < Len(bytes)
    /\ IF Len(bytes) - idx < fmt_size
       THEN \* struct.error: the buffer is shorter than the format
            /\ pc' = "raised"
            /\ UNCHANGED <<idx, yielded>>
       ELSE LET wd == UnpackI(bytes, idx)
                m == UnpackMask(bytes, idx + 4)
                name_len == UnpackLen(bytes, idx + 12)
                name == Slice(bytes, idx + fmt_size, idx + fmt_size + name_len)
            IN  /\ idx' = Advance(idx, name_len)
                /\ IF Decodable(name)
                   THEN /\ yielded' = Append(yielded, <<wd, m, name>>)
                        /\ pc' = "decode"
                   ELSE /\ pc' = "raised"
                        /\ UNCHANGED yielded
    /\ UNCHANGED <<written, bytes, notes, names, config, status, mask,
                   _include_create_event, fd, paths, _watch_descriptors,
                   deleting_watch_descriptor, buf, detected, exc, ci, out,
                   timer, kernel, fs, hist>>

\* `while i < len(buf)` is false: the generator is exhausted.
StreamEnd ==
    /\ pc = "decode"
    /\ idx >= Len(bytes)
    /\ pc' = "drained"
    /\ UNCHANGED <<decoder, notes, names, config, status, mask,
                   _include_create_event, fd, paths, _watch_descriptors,
                   deleting_watch_descriptor, buf, detected, exc, ci, out,
                   timer, kernel, fs, hist>>

StreamNext == StreamRead \/ StreamStep \/ StreamEnd

StreamSpec == StreamInit /\ [][StreamNext]_vars

\* C23: for every buffer of k whole records one decoder invocation yields
\* exactly k records in buffer order, each with its own watch id, mask and
\* name, advances by exactly 16 + nameLength bytes per record, and stops
\* with the read index equal to the buffer length.
C23_WholeRecordsDecoded ==
    /\ [](pc \in {"stream", "decode", "drained"})
    /\ [](pc = "drained" =>
            /\ Len(yielded) = Len(written)
            /\ \A k \in DOMAIN yielded :
                 yielded[k] = <<written[k].wd, written[k].mask, written[k].name>>
            /\ idx = Len(bytes))
    /\ [][(pc = "decode" /\ pc' = "decode") =>
            /\ Len(yielded') = Len(yielded) + 1
            /\ idx' = idx + 16 + Len(written[Len(yielded')].name)]_vars

====
